---- MODULE Spec2Model ----
(***************************************************************************)
(* Model of the python-tools scripts:                                      *)
(*   download-github-review-comments.py  (the lazy generator pipeline      *)
(*       iterate_pull_requests -> filter(reviewed) ->                      *)
(*       get_pull_request_review_comments -> filter(extension) ->          *)
(*       islice(max_rows) -> csv writer inside a `with open(...)` block)   *)
(*   pick-csv-rows.py                    (Picker.pick / pick)              *)
(*                                                                         *)
(* Strings whose content the code inspects (paths, extension) are          *)
(* sequences of characters; opaque strings (cursors) are TLA+ strings.     *)
(***************************************************************************)
EXTENDS Integers, Sequences, FiniteSets, TLC

VARIABLES
    pages,      \* remote: the pull-request pages the service holds, in order
    reviewsOf,  \* remote: PR number -> its reviews, each a sequence of comments
    extension,  \* argument `extension` (<<>> stands for None / '')
    max_rows,   \* argument `max_rows` (None or an integer >= 0)
    pc,         \* position of download_pull_request_review_comments
    after,      \* iterate_pull_requests: local `after`
    response,   \* iterate_pull_requests: local `response`
    idx,        \* iterate_pull_requests: position of `for pr in response.elements`
    prState,    \* iterate_pull_requests: "fetch" | "page" | "exhausted"
    comments,   \* get_pull_request_review_comments: comments not yet yielded
    cnt,        \* islice: number of items passed on so far
    file,       \* the output file: [exists, rows, open]
    prior,      \* history: the rows the output file held before the call
    opens,      \* history: how many times open() was called
    yielded,    \* history: pull requests yielded by iterate_pull_requests
    trace,      \* history: remote queries issued and comments consumed, in order
    rows,       \* pick: rows read from the input file
    picker,     \* pick: "head" | "tail"
    number,     \* pick: the `number` argument
    picked,     \* pick: rows given to writer.writerows
    pickPc      \* pick: "start" | "done" | "idle"

vars == <<pages, reviewsOf, extension, max_rows, pc, after, response, idx,
          prState, comments, cnt, file, prior, opens, yielded, trace,
          rows, picker, number, picked, pickPc>>

downloadVars == <<pages, reviewsOf, extension, max_rows, pc, after, response,
                  idx, prState, comments, cnt, file, prior, opens,
                  yielded, trace>>

pickVars == <<rows, picker, number, picked, pickPc>>

----------------------------------------------------------------------------
(* Bounds of the model *)

MaxPRs == 2        \* pull requests in the whole repository
MaxPages == 2      \* pages the remote splits them into
MaxCap == 2        \* largest max_rows tried
MaxRows == 3       \* pick: rows of the input
MaxNumber == 4     \* pick: largest `number` tried

None == -1         \* Python's None for max_rows (never a legal count)

----------------------------------------------------------------------------
(* Generic helpers *)

Min(a, b) == IF a <= b THEN a ELSE b

Take(s, n) == SubSeq(s, 1, Min(n, Len(s)))

IsPrefix(s, t) == Len(s) <= Len(t) /\ SubSeq(t, 1, Len(s)) = s

SeqsUpTo(S, n) == UNION { [1..m -> S] : m \in 0..n }

RECURSIVE Flatten(_)
Flatten(ss) == IF ss = <<>> THEN <<>> ELSE Head(ss) \o Flatten(Tail(ss))

\* str.endswith
EndsWith(s, suffix) ==
    /\ Len(suffix) <= Len(s)
    /\ SubSeq(s, Len(s) - Len(suffix) + 1, Len(s)) = suffix

----------------------------------------------------------------------------
(* The remote data sets *)

ExtKt == <<".", "k", "t">>
PathKt == <<"a", ".", "k", "t">>
PathPy == <<"b", ".", "p", "y">>
PathKts == <<"k", "t", "s">>

\* The shapes a pull request's reviews can take: a sequence of reviews, each
\* the sequence of the paths of its comments.
ReviewShapes ==
    { <<>>,
      << <<>> >>,
      << <<PathPy, PathKt>>, <<PathKt>> >>,
      << <<PathKts>>, <<>>, <<PathKt, PathPy>> >> }

Cursors == <<"c1", "c2", "c3", "c4">>

\* Sequences of k pages (each a sequence of review shapes, one per pull
\* request) holding at most `budget` pull requests in all.
RECURSIVE Layouts(_, _)
Layouts(k, budget) ==
    IF k = 0 THEN { <<>> }
    ELSE UNION { { <<p>> \o rest : rest \in Layouts(k - 1, budget - Len(p)) }
                 : p \in SeqsUpTo(ReviewShapes, budget) }

RECURSIVE PRsBefore(_, _)
PRsBefore(layout, i) ==
    IF i <= 1 THEN 0 ELSE PRsBefore(layout, i - 1) + Len(layout[i - 1])

\* PaginatedList of PullRequest
PageOf(layout, i) ==
    [ elements |-> [ j \in 1..Len(layout[i]) |->
                       [ number |-> PRsBefore(layout, i) + j,
                         review_count |-> Len(layout[i][j]) ] ],
      end_cursor |-> Cursors[i],
      has_next |-> i < Len(layout) ]

\* ReviewComment
CommentOf(n, r, c, path) ==
    [ id |-> <<n, r, c>>, path |-> path, body |-> <<"body", n, r, c>> ]

ReviewsOfShape(n, shape) ==
    [ r \in 1..Len(shape) |->
        [ c \in 1..Len(shape[r]) |-> CommentOf(n, r, c, shape[r][c]) ] ]

ReviewsOfLayout(layout) ==
    LET shapes == Flatten(layout)
    IN  [ n \in 1..Len(shapes) |-> ReviewsOfShape(n, shapes[n]) ]

NoResponse == [ elements |-> <<>>, end_cursor |-> "", has_next |-> FALSE ]

----------------------------------------------------------------------------
(* The remote service and the functions that query it *)

\* The page the service returns for the continuation token `tok`: the first
\* page for '', else the page after the one whose endCursor is `tok`.
RemotePage(tok) ==
    LET i == IF tok = "" THEN 1
             ELSE IF \E j \in 1..Len(pages) : pages[j].end_cursor = tok
                  THEN 1 + (CHOOSE j \in 1..Len(pages) : pages[j].end_cursor = tok)
                  ELSE Len(pages) + 1
    IN  IF i <= Len(pages) THEN pages[i]
        ELSE [ elements |-> <<>>, end_cursor |-> tok, has_next |-> FALSE ]

\* get_pull_requests: one query, parsed into a PaginatedList
get_pull_requests(tok) == RemotePage(tok)

\* get_pull_request_review_comments: one query; comment_nodes flattens the
\* reviews -> comments nesting in order
get_pull_request_review_comments(pr_number) == Flatten(reviewsOf[pr_number])

\* Entries of `trace`
PageEv(tok) == [ kind |-> "page", after |-> tok, pr |-> 0, comment |-> <<>> ]
RcEv(n) == [ kind |-> "rc", after |-> "", pr |-> n, comment |-> <<>> ]
RowEv(rc) == [ kind |-> "row", after |-> "", pr |-> rc.id[1], comment |-> rc.id ]
DropEv(rc) == [ kind |-> "drop", after |-> "", pr |-> rc.id[1], comment |-> rc.id ]

----------------------------------------------------------------------------
(* Pieces of the pipeline *)

\* iterate_pull_requests: `if not response.has_next: break`
ShouldStop(resp) == ~resp.has_next

\* iterate_pull_requests: `after=response.end_cursor`
\* (variant: the cursor is never advanced)
NextAfterStale(resp) == ""
NextAfter(resp) == resp.end_cursor

\* filter(lambda pr: pr.review_count > 0, pr_iter)
\* (variant: no filter on review_count)
ReviewedAlways(pr) == TRUE
Reviewed(pr) == pr.review_count > 0

\* `yield from`: the next pull request is taken only when the comments of the
\* current one are exhausted
\* (variant: the next pull request is taken at once)
YieldFromEager(cs) == TRUE
YieldFromDone(cs) == cs = <<>>

\* `if extension:` ... filter(lambda rc: rc.path.endswith(extension), ...)
\* (variant: no filter on the path)
PassesFilterAlways(rc) == TRUE
PassesFilter(rc) == extension = <<>> \/ EndsWith(rc.path, extension)

\* `if max_rows:` -- None and 0 are both falsy
Sliced == max_rows # None /\ max_rows # 0

\* islice(review_comment_iter, max_rows): stops, without pulling from the
\* iterator it wraps, once max_rows items went through
\* (variant: one item too many)
SliceExhaustedLate == Sliced /\ cnt > max_rows
SliceExhausted == Sliced /\ cnt >= max_rows

\* open(output_file, 'w', ...): creates or truncates
\* (variant: mode 'a' in place of 'w')
OpenFileAppend(f) == [ exists |-> TRUE, rows |-> f.rows, open |-> TRUE ]
OpenFile(f) == [ exists |-> TRUE, rows |-> <<>>, open |-> TRUE ]

\* leaving the `with` block, normally or by an exception
\* (variant: no `with`, the handle is never closed)
CloseFileNever(f) == f
CloseFile(f) == [ f EXCEPT !.open = FALSE ]

\* writer.writerow([rc.path, rc.body])
WriteRow(f, rc) == [ f EXCEPT !.rows = Append(@, <<rc.path, rc.body>>) ]

----------------------------------------------------------------------------
(* download_pull_request_review_comments *)

StaleRow == <<PathPy, <<"body", 0, 0, 0>>>>

PickIdle ==
    /\ rows = <<>>
    /\ picker = "head"
    /\ number = 0
    /\ picked = <<>>
    /\ pickPc = "idle"

Init ==
    /\ \E k \in 1..MaxPages : \E layout \in Layouts(k, MaxPRs) :
          /\ pages = [ i \in 1..k |-> PageOf(layout, i) ]
          /\ reviewsOf = ReviewsOfLayout(layout)
    /\ extension \in { <<>>, ExtKt }
    /\ max_rows \in { None } \cup 0..MaxCap
    /\ pc = "start"
    /\ after = ""
    /\ response = NoResponse
    /\ idx = 1
    /\ prState = "fetch"
    /\ comments = <<>>
    /\ cnt = 0
    /\ file \in { [ exists |-> FALSE, rows |-> <<>>, open |-> FALSE ],
                  [ exists |-> TRUE, rows |-> <<StaleRow>>, open |-> FALSE ] }
    /\ prior = file.rows
    /\ opens = 0
    /\ yielded = <<>>
    /\ trace = <<>>
    /\ PickIdle

\* `with open(output_file, 'w', newline='', encoding='utf-8') as f:`
\* (the generators built before it are lazy: nothing has been queried yet)
Open ==
    /\ pc = "start"
    /\ pc' = "loop"
    /\ file' = OpenFile(file)
    /\ opens' = opens + 1
    /\ UNCHANGED <<pages, reviewsOf, extension, max_rows, after, response, idx,
                   prState, comments, cnt, yielded, trace>>
    /\ UNCHANGED <<prior, rows, picker, number, picked, pickPc>>

\* the for loop asks islice for the next item and islice is exhausted
SliceStop ==
    /\ pc = "loop"
    /\ SliceExhausted
    /\ pc' = "done"
    /\ file' = CloseFile(file)
    /\ UNCHANGED <<pages, reviewsOf, extension, max_rows, after, response, idx,
                   prState, comments, cnt, opens, yielded, trace>>
    /\ UNCHANGED <<prior, rows, picker, number, picked, pickPc>>

\* The pull reaches iterate_pull_requests at the top of its `while True`
Pulling == pc = "loop" /\ ~SliceExhausted /\ YieldFromDone(comments)

\* iterate_pull_requests: get_pull_requests(...after=after...) returns
FetchPage ==
    /\ Pulling
    /\ prState = "fetch"
    /\ trace' = Append(trace, PageEv(after))
    /\ response' = get_pull_requests(after)
    /\ idx' = 1
    /\ prState' = "page"
    /\ UNCHANGED <<pages, reviewsOf, extension, max_rows, pc, after, comments,
                   cnt, file, opens, yielded>>
    /\ UNCHANGED <<prior, rows, picker, number, picked, pickPc>>

\* gql_client.execute raises in get_pull_requests: the error leaves the
\* generators and the `with` block
FetchPageFails ==
    /\ Pulling
    /\ prState = "fetch"
    /\ trace' = Append(trace, PageEv(after))
    /\ pc' = "failed"
    /\ file' = CloseFile(file)
    /\ UNCHANGED <<pages, reviewsOf, extension, max_rows, after, response, idx,
                   prState, comments, cnt, opens, yielded>>
    /\ UNCHANGED <<prior, rows, picker, number, picked, pickPc>>

\* iterate_pull_requests yields the next element of the page; the reviewed
\* filter drops it or the for loop of iterate_pull_request_review_comments
\* starts get_pull_request_review_comments on it, whose query returns
NextPullRequest ==
    /\ Pulling
    /\ prState = "page"
    /\ idx <= Len(response.elements)
    /\ LET pr == response.elements[idx]
       IN  /\ yielded' = Append(yielded, pr)
           /\ idx' = idx + 1
           /\ IF Reviewed(pr)
              THEN /\ trace' = Append(trace, RcEv(pr.number))
                   /\ comments' = get_pull_request_review_comments(pr.number)
              ELSE UNCHANGED <<trace, comments>>
    /\ UNCHANGED <<pages, reviewsOf, extension, max_rows, pc, after, response,
                   prState, cnt, file, opens>>
    /\ UNCHANGED <<prior, rows, picker, number, picked, pickPc>>

\* the same, but gql_client.execute raises in get_pull_request_review_comments
ReviewQueryFails ==
    /\ Pulling
    /\ prState = "page"
    /\ idx <= Len(response.elements)
    /\ LET pr == response.elements[idx]
       IN  /\ Reviewed(pr)
           /\ yielded' = Append(yielded, pr)
           /\ idx' = idx + 1
           /\ trace' = Append(trace, RcEv(pr.number))
    /\ pc' = "failed"
    /\ file' = CloseFile(file)
    /\ UNCHANGED <<pages, reviewsOf, extension, max_rows, after, response,
                   prState, comments, cnt, opens>>
    /\ UNCHANGED <<prior, rows, picker, number, picked, pickPc>>

\* end of `for pr in response.elements` with has_next: `after=response.end_cursor`
NextPage ==
    /\ Pulling
    /\ prState = "page"
    /\ idx > Len(response.elements)
    /\ ~ShouldStop(response)
    /\ after' = NextAfter(response)
    /\ prState' = "fetch"
    /\ UNCHANGED <<pages, reviewsOf, extension, max_rows, pc, response, idx,
                   comments, cnt, file, opens, yielded, trace>>
    /\ UNCHANGED <<prior, rows, picker, number, picked, pickPc>>

\* end of `for pr in response.elements` without has_next: `break`; every
\* generator is exhausted, the write loop ends and the `with` block is left
LastPage ==
    /\ Pulling
    /\ prState = "page"
    /\ idx > Len(response.elements)
    /\ ShouldStop(response)
    /\ prState' = "exhausted"
    /\ pc' = "done"
    /\ file' = CloseFile(file)
    /\ UNCHANGED <<pages, reviewsOf, extension, max_rows, after, response, idx,
                   comments, cnt, opens, yielded, trace>>
    /\ UNCHANGED <<prior, rows, picker, number, picked, pickPc>>

\* get_pull_request_review_comments yields a comment; the extension filter
\* drops it, or it passes islice and the loop body writes its row
NextComment ==
    /\ pc = "loop"
    /\ ~SliceExhausted
    /\ comments # <<>>
    /\ LET rc == Head(comments)
       IN  /\ comments' = Tail(comments)
           /\ IF PassesFilter(rc)
              THEN /\ cnt' = IF Sliced THEN cnt + 1 ELSE cnt
                   /\ file' = WriteRow(file, rc)
                   /\ trace' = Append(trace, RowEv(rc))
              ELSE /\ trace' = Append(trace, DropEv(rc))
                   /\ UNCHANGED <<cnt, file>>
    /\ UNCHANGED <<pages, reviewsOf, extension, max_rows, pc, after, response,
                   idx, prState, opens, yielded>>
    /\ UNCHANGED <<prior, rows, picker, number, picked, pickPc>>

Next ==
    \/ Open
    \/ SliceStop
    \/ FetchPage
    \/ FetchPageFails
    \/ NextPullRequest
    \/ ReviewQueryFails
    \/ NextPage
    \/ LastPage
    \/ NextComment

Spec == Init /\ [][Next]_vars

\* The interpreter runs the single thread until it returns or raises.
FairSpec == Spec /\ WF_vars(Next)

----------------------------------------------------------------------------
(* pick-csv-rows.py *)

\* Python's normalisation of a slice bound (step 1) against a length
ClampIndex(i, len) ==
    LET j == IF i < 0 THEN i + len ELSE i
    IN  IF j < 0 THEN 0 ELSE IF j > len THEN len ELSE j

\* elements[:stop]
SliceTo(elements, stop) == SubSeq(elements, 1, ClampIndex(stop, Len(elements)))

\* elements[start:]
SliceFrom(elements, start) ==
    SubSeq(elements, ClampIndex(start, Len(elements)) + 1, Len(elements))

\* Picker.pick
\* (variant: head is elements[:number - 1])
PickerPickShort(self, elements, n) ==
    IF self = "head" THEN SliceTo(elements, n - 1) ELSE SliceFrom(elements, -n)
PickerPick(self, elements, n) ==
    IF self = "head" THEN SliceTo(elements, n) ELSE SliceFrom(elements, -n)

RowValues == { <<"p", "x">>, <<"q", "y,z">> }

DownloadIdle ==
    /\ pages = <<>>
    /\ reviewsOf = <<>>
    /\ extension = <<>>
    /\ max_rows = None
    /\ pc = "idle"
    /\ after = ""
    /\ response = NoResponse
    /\ idx = 1
    /\ prState = "fetch"
    /\ comments = <<>>
    /\ cnt = 0
    /\ file = [ exists |-> FALSE, rows |-> <<>>, open |-> FALSE ]
    /\ prior = <<>>
    /\ opens = 0
    /\ yielded = <<>>
    /\ trace = <<>>

InitPick ==
    /\ rows \in SeqsUpTo(RowValues, MaxRows)
    /\ picker \in { "head", "tail" }
    /\ number \in 0..MaxNumber
    /\ picked = <<>>
    /\ pickPc = "start"
    /\ DownloadIdle

\* pick(input_file, output_file, picker, number)
Pick ==
    /\ pickPc = "start"
    /\ picked' = PickerPick(picker, rows, number)
    /\ pickPc' = "done"
    /\ UNCHANGED <<rows, picker, number>>
    /\ UNCHANGED downloadVars

NextPick == Pick

SpecPick == InitPick /\ [][NextPick]_vars

----------------------------------------------------------------------------
(* What the remote data set offers, computed from the data alone *)

AllPRs == Flatten([ i \in 1..Len(pages) |-> pages[i].elements ])

ExpectedTokens ==
    [ i \in 1..Len(pages) |-> IF i = 1 THEN "" ELSE pages[i - 1].end_cursor ]

IsQuery(e) == e.kind \in { "page", "rc" }

FetchTokens ==
    LET IsPage(e) == e.kind = "page"
        evs == SelectSeq(trace, IsPage)
    IN  [ i \in 1..Len(evs) |-> evs[i].after ]

QueriedPRs ==
    LET IsRc(e) == e.kind = "rc"
        evs == SelectSeq(trace, IsRc)
    IN  [ i \in 1..Len(evs) |-> evs[i].pr ]

HasReviews(pr) == pr.review_count > 0

Matches(c) == extension = <<>> \/ EndsWith(c.path, extension)

CommentsOfPR(pr) == IF HasReviews(pr) THEN Flatten(reviewsOf[pr.number]) ELSE <<>>

\* the comments of the reviewed pull requests that pass the extension filter,
\* in encounter order, as rows
EligibleRows ==
    LET all == Flatten([ i \in 1..Len(AllPRs) |-> CommentsOfPR(AllPRs[i]) ])
        ok == SelectSeq(all, Matches)
    IN  [ i \in 1..Len(ok) |-> <<ok[i].path, ok[i].body>> ]

CommentEv(c) == IF Matches(c) THEN RowEv(c) ELSE DropEv(c)

PRTrace(pr) ==
    IF HasReviews(pr)
    THEN LET cs == CommentsOfPR(pr)
         IN  <<RcEv(pr.number)>> \o [ i \in 1..Len(cs) |-> CommentEv(cs[i]) ]
    ELSE <<>>

PageTrace(i) ==
    <<PageEv(ExpectedTokens[i])>>
        \o Flatten([ j \in 1..Len(pages[i].elements) |-> PRTrace(pages[i].elements[j]) ])

\* the strictly sequential run over the whole data set
ExpectedTrace == Flatten([ i \in 1..Len(pages) |-> PageTrace(i) ])

Running == pc \in { "loop", "done", "failed" }

Terminated == pc \in { "done", "failed" }

----------------------------------------------------------------------------
(* Claims *)

\* C1: fully consuming iterate_pull_requests over pages 1..k (hasNext true on
\* all but the last) yields the pages' elements concatenated in order with
\* exactly k fetches: the first with '', fetch i+1 with page i's endCursor,
\* none after the page whose hasNext is false.
C1_Pagination ==
    /\ IsPrefix(FetchTokens, ExpectedTokens)
    /\ IsPrefix(yielded, AllPRs)
    /\ prState = "exhausted" => (FetchTokens = ExpectedTokens /\ yielded = AllPRs)

C1_Witness ==
    /\ prState = "exhausted"
    /\ Len(pages) >= 2
    /\ Len(pages[1].elements) >= 1
    /\ Len(pages[2].elements) >= 1
    /\ FetchTokens = <<"", "c1">> \o SubSeq(ExpectedTokens, 3, Len(pages))

\* C2: the review-comment queries issued are exactly one per pull request
\* reached with reviewCount > 0, with that pull request's number, and none for
\* a pull request whose reviewCount is 0.
C2_OnlyReviewedQueried ==
    LET reviewed == SelectSeq(yielded, HasReviews)
    IN  QueriedPRs = [ i \in 1..Len(reviewed) |-> reviewed[i].number ]

C2_Witness ==
    /\ pc = "done"
    /\ \E i \in 1..Len(yielded) : yielded[i].review_count = 0
    /\ \E i \in 1..Len(yielded) : yielded[i].review_count > 0
    /\ Len(QueriedPRs) = 1

\* C3: with max_rows = N >= 0 and more than N eligible comments, exactly the
\* first N eligible comments are written, N = 0 included.
C3_ExactlyNRows ==
    (pc = "done" /\ max_rows # None /\ Len(EligibleRows) > max_rows)
        => file.rows = Take(EligibleRows, max_rows)

CapHit == max_rows # None /\ max_rows >= 1 /\ pc = "loop" /\ Len(file.rows) = max_rows

\* C4: with max_rows = N >= 1, once the N-th row is written no further query
\* is issued and the operation completes; it completes when the pull requests
\* are exhausted or the cap is reached, whichever comes first.
C4_ShortCircuit ==
    /\ [][CapHit => (trace' = trace /\ file'.rows = file.rows /\ pc' = "done")]_vars
    /\ [](pc = "done" =>
            \/ prState = "exhausted"
            \/ (max_rows # None /\ max_rows >= 1 /\ Len(file.rows) = max_rows))
    /\ [](prState = "exhausted" => pc = "done")
    /\ (CapHit ~> pc = "done")
    /\ <>Terminated

C4_Witness ==
    /\ pc = "done"
    /\ max_rows = 2
    /\ Len(file.rows) = 2
    /\ Len(EligibleRows) > 2
    /\ prState # "exhausted"
    /\ Len(trace) < Len(ExpectedTrace)

\* C5: with an extension filter every written row's path ends with it, and
\* the filter comes before the cap: non-matching comments are dropped and do
\* not count, so under a cap N the file holds the first N matching comments.
C5_FilterBeforeCap ==
    Running =>
        /\ extension # <<>> =>
              \A i \in 1..Len(file.rows) : EndsWith(file.rows[i][1], extension)
        /\ IsPrefix(file.rows, EligibleRows)
        /\ Sliced => cnt = Len(file.rows)
        /\ (pc = "done" /\ max_rows # None /\ max_rows >= 1) =>
              file.rows = Take(EligibleRows, max_rows)

C5_Witness ==
    /\ pc = "done"
    /\ extension = ExtKt
    /\ max_rows = 2
    /\ Len(file.rows) = 2
    /\ \E i, j \in 1..Len(trace) :
          i < j /\ trace[i].kind = "drop" /\ trace[j].kind = "row"

ZeroRepo == Len(pages) = 1 /\ pages[1].elements = <<>>

\* C6: when the merged-PR query returns a single empty page, the download
\* finishes without error after exactly one page fetch and no review-comment
\* query, and the output file exists and is empty, also when it held content.
C6_EmptyRepository ==
    ZeroRepo =>
        /\ (pc = "failed" => prState = "fetch")
        /\ pc = "done" =>
              /\ FetchTokens = <<"">>
              /\ QueriedPRs = <<>>
              /\ file = [ exists |-> TRUE, rows |-> <<>>, open |-> FALSE ]

C6_Witness == ZeroRepo /\ pc = "done" /\ prior # <<>> /\ file.rows = <<>>

LastN(s, k) == SubSeq(s, Len(s) - k + 1, Len(s))

\* C7: `pick tail N` emits the last min(N, R) rows of the R input rows,
\* unchanged and in order; tail 0 emits none.
C7_Tail ==
    (pickPc = "done" /\ picker = "tail")
        => picked = LastN(rows, Min(number, Len(rows)))

\* C8: `pick head N` emits the first min(N, R) rows of the R input rows,
\* unchanged and in order; head 0 emits none.
C8_Head ==
    (pickPc = "done" /\ picker = "head")
        => picked = SubSeq(rows, 1, Min(number, Len(rows)))

C8_Witness ==
    /\ pickPc = "done"
    /\ picker = "head"
    /\ number = 2
    /\ Len(rows) = 3
    /\ picked = <<rows[1], rows[2]>>
    /\ rows[1] # rows[2]

\* C9: the output file is opened exactly once and is closed in every terminal
\* state (completion, cap reached, failed query); a failed query ends the run
\* with the error, writes nothing more and keeps the rows written before it.
C9_FileClosed ==
    /\ [](opens <= 1)
    /\ [](pc = "loop" => (opens = 1 /\ file.open))
    /\ [](Terminated => (opens = 1 /\ ~file.open /\ file.exists))
    /\ [][(pc' = "failed" /\ pc # "failed") =>
            /\ file'.rows = file.rows
            /\ Len(trace') = Len(trace) + 1
            /\ IsQuery(trace'[Len(trace')])]_vars
    /\ [][pc = "failed" => (pc' = "failed" /\ file' = file)]_vars

C9_Witness ==
    /\ pc = "failed"
    /\ Len(file.rows) >= 1
    /\ ~file.open
    /\ opens = 1

\* C10: queries are issued one at a time in pull order: the review-comment
\* queries of a page in the order of its pull requests, every comment of a
\* pull request consumed (written or dropped) before the next query, the next
\* page fetched only after that.
C10_Sequential == IsPrefix(trace, ExpectedTrace)

C10_Witness ==
    /\ pc = "done"
    /\ trace = ExpectedTrace
    /\ \E i, j, k, l \in 1..Len(trace) :
          /\ i < j /\ j < k /\ k < l
          /\ trace[i].kind = "rc"
          /\ trace[j].kind = "row"
          /\ trace[k].kind = "rc"
          /\ trace[l].kind = "page"

============================================================================
